---- MODULE Spec2Model ----
(***************************************************************************)
(* Bulk transfer generators of src/disperse: generateBulkSolTransactions,  *)
(* generateBulkSplTransactions, generateTokenAccountCreationTransactions   *)
(* and generateCompleteBulkSplTransactions.                                *)
(*                                                                         *)
(* A caller makes one call at a time.  The two transfer generators are     *)
(* synchronous and are one step each.  The account-creation generator      *)
(* suspends at every `await connection.getAccountInfo(...)`: each lookup   *)
(* is answered by the environment with null (no account), an account, or   *)
(* a rejection.                                                            *)
(*                                                                         *)
(* Addresses are integers standing for well-formed base58 strings; an      *)
(* optional field is <<>> when undefined and <<v>> when it holds v.        *)
(***************************************************************************)
EXTENDS Integers, Sequences, FiniteSets, TLC

VARIABLES
    call,                 \* the function the caller invoked, "none" when idle
    config,               \* the caller's config object (sol, spl, complete)
    recipients,           \* generateTokenAccountCreationTransactions: recipients
    instructionsPerTx,    \* generateTokenAccountCreationTransactions: parameter (optional)
    pc,                   \* "idle" | "await" | "returned" | "thrown"
    i,                    \* loop index of the account-creation loop
    transactions,         \* local of the account-creation generator
    currentInstructions,  \* local of the account-creation generator
    lookups,              \* associated addresses passed to getAccountInfo, in issue order
    answers,              \* what each issued lookup answered, in order
    result,               \* the value the call returned (optional)
    error,                \* the error the call threw, "none" otherwise
    reused,               \* TRUE once an earlier call has ended (returned or thrown)
    arr,                  \* chunk: the array
    size,                 \* chunk: the chunk size
    chunkI,               \* chunk: the local i
    chunks                \* chunk: the local chunks

chunkVars == <<arr, size, chunkI, chunks>>

vars == <<call, config, recipients, instructionsPerTx, pc, i, transactions,
          currentInstructions, lookups, answers, result, error, reused, chunkVars>>

----------------------------------------------------------------------------
(* Bounds of the model *)

\* longest recipient / transfer list enumerated exhaustively
MaxLen == 2
\* configured instructionsPerTx ranges over -MaxCap..MaxCap
MaxCap == 2
\* at most this many lookups of one call answer "account exists"
MaxExisting == 2
\* the number of chunks the heap holds; more than any array has elements
MaxChunks == 4

(* Program constants *)

DEFAULT_INSTRUCTIONS_PER_TX_ACCOUNT_CREATION == 12
DEFAULT_INSTRUCTIONS_PER_TX_TRANSFER == 18
DEFAULT_MEMO == "Bulk SPL transfer"
DEFAULT_INSTRUCTIONS_PER_TX == 18
DEFAULT_MEMO_SOL == "Bulk SOL transfer"

ConfigurationErrorMessage == "Either transfers or (recipients + fixedAmount) must be provided"
RecipientListErrorMessage == "Either transfers or recipients must be provided"
\* the rejection of connection.getAccountInfo, propagated by the await
LookupFailure == "getAccountInfo rejected"
\* the runtime's fatal error when an array grows past what the heap holds
OutOfMemory == "JavaScript heap out of memory"

----------------------------------------------------------------------------
(* JavaScript values *)

Undefined == <<>>
Some(v) == <<v>>
Value(o) == o[1]
\* a destructuring / parameter default: applies exactly when the value is undefined
OrDefault(o, d) == IF o = Undefined THEN d ELSE o[1]

Abs(n) == IF n < 0 THEN -n ELSE n
\* mutant: the cut tests the index i instead of i + 1
RemainderIsZero_IndexNotCount(a, b) == IF b = 0 THEN FALSE ELSE (a - 1) % Abs(b) = 0

\* (a % b) === 0 for an integer a >= 0: NaN when b = 0, else the remainder by |b|
RemainderIsZero(a, b) == IF b = 0 THEN FALSE ELSE a % Abs(b) = 0

----------------------------------------------------------------------------
(* Ledger objects: src/disperse/transaction-builder.ts *)

PublicKey(address) == [base58 |-> address]

getAssociatedTokenAddressSync(mint, owner) == [mint |-> mint, owner |-> owner]

createSolTransferInstruction(from, to, amountLamports) ==
    [programId |-> "System", fromPubkey |-> from, toPubkey |-> to,
     lamports |-> amountLamports]

createSplTransferInstructionByOwners(mint, fromOwner, toOwner, rawAmount) ==
    [programId |-> "Token",
     source |-> getAssociatedTokenAddressSync(mint, fromOwner),
     destination |-> getAssociatedTokenAddressSync(mint, toOwner),
     owner |-> fromOwner, amount |-> rawAmount]

createMemoInstruction(memo, signer) ==
    [programId |-> "Memo", keys |-> <<signer>>, data |-> memo]

createTokenAccountInstruction(payer, mint, owner) ==
    [programId |-> "AssociatedToken", payer |-> payer,
     associatedAddress |-> getAssociatedTokenAddressSync(mint, owner),
     owner |-> owner, mint |-> mint]

buildTransaction(instructions) == [instructions |-> instructions]

----------------------------------------------------------------------------
(* generateBulkSplTransactions: src/disperse/bulk-spl-transfer.ts *)

\* mutant: currentInstructions is not reset after the bundle is pushed
finalizeTransaction_NoReset(st, memo, sender) ==
    IF Len(st.currentInstructions) > 0
    THEN [transactions |->
              Append(st.transactions,
                     buildTransaction(Append(st.currentInstructions,
                                             createMemoInstruction(memo, sender)))),
          currentInstructions |-> st.currentInstructions]
    ELSE st

\* mutant: the memo is pushed in front of the transfers
finalizeTransaction_MemoFirst(st, memo, sender) ==
    IF Len(st.currentInstructions) > 0
    THEN [transactions |->
              Append(st.transactions,
                     buildTransaction(<<createMemoInstruction(memo, sender)>>
                                      \o st.currentInstructions)),
          currentInstructions |-> <<>>]
    ELSE st

\* the closure's captured locals travel as st = [transactions, currentInstructions]
finalizeTransaction(st, memo, sender) ==
    IF Len(st.currentInstructions) > 0
    THEN [transactions |->
              Append(st.transactions,
                     buildTransaction(Append(st.currentInstructions,
                                             createMemoInstruction(memo, sender)))),
          currentInstructions |-> <<>>]
    ELSE st

\* Mode 1 loop body and loop, from index k (0-based) on
RECURSIVE SplFixedAmountLoop(_, _, _, _, _, _, _, _)
SplFixedAmountLoop(k, st, recips, fixedAmount, perTx, memo, sender, mint) ==
    IF k < Len(recips)
    THEN LET pushed == [st EXCEPT !.currentInstructions =
                           Append(@, createSplTransferInstructionByOwners(
                                         mint, sender, PublicKey(recips[k + 1]),
                                         fixedAmount))]
             next == IF RemainderIsZero(k + 1, perTx) \/ k = Len(recips) - 1
                     THEN finalizeTransaction(pushed, memo, sender)
                     ELSE pushed
         IN  SplFixedAmountLoop(k + 1, next, recips, fixedAmount, perTx, memo,
                                sender, mint)
    ELSE st

\* Mode 2 loop body and loop, from index k (0-based) on
RECURSIVE SplTransfersLoop(_, _, _, _, _, _, _)
SplTransfersLoop(k, st, transfers, perTx, memo, sender, mint) ==
    IF k < Len(transfers)
    THEN LET pushed == [st EXCEPT !.currentInstructions =
                           Append(@, createSplTransferInstructionByOwners(
                                         mint, sender,
                                         PublicKey(transfers[k + 1].recipient),
                                         transfers[k + 1].amount))]
             next == IF RemainderIsZero(k + 1, perTx) \/ k = Len(transfers) - 1
                     THEN finalizeTransaction(pushed, memo, sender)
                     ELSE pushed
         IN  SplTransfersLoop(k + 1, next, transfers, perTx, memo, sender, mint)
    ELSE st

\* the outcome of a call: the returned list, or the thrown error
Returned(txs) == [threw |-> FALSE, value |-> txs, error |-> "none"]
\* mutant: the final else returns the empty list instead of throwing
Threw_ReturnsEmpty(message) == [threw |-> FALSE, value |-> <<>>, error |-> "none"]

Threw(message) == [threw |-> TRUE, value |-> <<>>, error |-> message]

\* mutant: the transfers list is tested before recipients + fixedAmount
generateBulkSplTransactions_TransfersFirst(cfg) ==
    LET perTx == OrDefault(cfg.instructionsPerTx, DEFAULT_INSTRUCTIONS_PER_TX_TRANSFER)
        memo == OrDefault(cfg.memo, DEFAULT_MEMO)
        st0 == [transactions |-> <<>>, currentInstructions |-> <<>>]
    IN  IF cfg.transfers /= Undefined
        THEN Returned(SplTransfersLoop(0, st0, Value(cfg.transfers), perTx, memo,
                                       cfg.sender, cfg.mint).transactions)
        ELSE IF cfg.fixedAmount /= Undefined /\ cfg.recipients /= Undefined
        THEN Returned(SplFixedAmountLoop(0, st0, Value(cfg.recipients),
                                         Value(cfg.fixedAmount), perTx, memo,
                                         cfg.sender, cfg.mint).transactions)
        ELSE Threw(ConfigurationErrorMessage)

generateBulkSplTransactions(cfg) ==
    LET perTx == OrDefault(cfg.instructionsPerTx, DEFAULT_INSTRUCTIONS_PER_TX_TRANSFER)
        memo == OrDefault(cfg.memo, DEFAULT_MEMO)
        st0 == [transactions |-> <<>>, currentInstructions |-> <<>>]
    IN  IF cfg.fixedAmount /= Undefined /\ cfg.recipients /= Undefined
        THEN Returned(SplFixedAmountLoop(0, st0, Value(cfg.recipients),
                                         Value(cfg.fixedAmount), perTx, memo,
                                         cfg.sender, cfg.mint).transactions)
        ELSE IF cfg.transfers /= Undefined
        THEN Returned(SplTransfersLoop(0, st0, Value(cfg.transfers), perTx, memo,
                                       cfg.sender, cfg.mint).transactions)
        ELSE Threw(ConfigurationErrorMessage)

----------------------------------------------------------------------------
(* generateBulkSolTransactions: src/unnamed/part_000 *)

\* mutant: the SOL copy of the helper pushes the bundle without the memo
finalizeTransactionSol_NoMemo(st, memo, sender) ==
    IF Len(st.currentInstructions) > 0
    THEN [transactions |->
              Append(st.transactions, buildTransaction(st.currentInstructions)),
          currentInstructions |-> <<>>]
    ELSE st

finalizeTransactionSol(st, memo, sender) ==
    IF Len(st.currentInstructions) > 0
    THEN [transactions |->
              Append(st.transactions,
                     buildTransaction(Append(st.currentInstructions,
                                             createMemoInstruction(memo, sender)))),
          currentInstructions |-> <<>>]
    ELSE st

RECURSIVE SolFixedAmountLoop(_, _, _, _, _, _, _)
SolFixedAmountLoop(k, st, recips, fixedAmount, perTx, memo, sender) ==
    IF k < Len(recips)
    THEN LET pushed == [st EXCEPT !.currentInstructions =
                           Append(@, createSolTransferInstruction(
                                         sender, PublicKey(recips[k + 1]),
                                         fixedAmount))]
             next == IF RemainderIsZero(k + 1, perTx) \/ k = Len(recips) - 1
                     THEN finalizeTransactionSol(pushed, memo, sender)
                     ELSE pushed
         IN  SolFixedAmountLoop(k + 1, next, recips, fixedAmount, perTx, memo, sender)
    ELSE st

RECURSIVE SolTransfersLoop(_, _, _, _, _, _)
SolTransfersLoop(k, st, transfers, perTx, memo, sender) ==
    IF k < Len(transfers)
    THEN LET pushed == [st EXCEPT !.currentInstructions =
                           Append(@, createSolTransferInstruction(
                                         sender,
                                         PublicKey(transfers[k + 1].recipient),
                                         transfers[k + 1].amount))]
             next == IF RemainderIsZero(k + 1, perTx) \/ k = Len(transfers) - 1
                     THEN finalizeTransactionSol(pushed, memo, sender)
                     ELSE pushed
         IN  SolTransfersLoop(k + 1, next, transfers, perTx, memo, sender)
    ELSE st

generateBulkSolTransactions(cfg) ==
    LET perTx == OrDefault(cfg.instructionsPerTx, DEFAULT_INSTRUCTIONS_PER_TX)
        memo == OrDefault(cfg.memo, DEFAULT_MEMO_SOL)
        st0 == [transactions |-> <<>>, currentInstructions |-> <<>>]
    IN  IF cfg.fixedAmount /= Undefined /\ cfg.recipients /= Undefined
        THEN Returned(SolFixedAmountLoop(0, st0, Value(cfg.recipients),
                                         Value(cfg.fixedAmount), perTx, memo,
                                         cfg.sender).transactions)
        ELSE IF cfg.transfers /= Undefined
        THEN Returned(SolTransfersLoop(0, st0, Value(cfg.transfers), perTx, memo,
                                       cfg.sender).transactions)
        ELSE Threw(ConfigurationErrorMessage)

----------------------------------------------------------------------------
(* generateTokenAccountCreationTransactions: src/disperse/bulk-spl-transfer.ts *)

\* the two values getAccountInfo resolves to
NoAccount == "null"
AccountInfo == "account"
\* recorded in answers when the lookup rejects
Rejected == "rejected"

\* mutant: the cut tests > instead of >=
CreationLoopBody_CutLate(st, k, recips, perTx, accountInfo, payer, mint) ==
    LET pushed == IF accountInfo = NoAccount
                  THEN [st EXCEPT !.currentInstructions =
                           Append(@, createTokenAccountInstruction(
                                         payer, mint, PublicKey(recips[k + 1])))]
                  ELSE st
    IN  IF Len(pushed.currentInstructions) > perTx \/ k = Len(recips) - 1
        THEN IF Len(pushed.currentInstructions) > 0
             THEN [transactions |->
                       Append(pushed.transactions,
                              buildTransaction(pushed.currentInstructions)),
                   currentInstructions |-> <<>>]
             ELSE pushed
        ELSE pushed

\* mutant: the existence test is inverted (accountInfo !== null)
CreationLoopBody_Inverted(st, k, recips, perTx, accountInfo, payer, mint) ==
    LET pushed == IF accountInfo /= NoAccount
                  THEN [st EXCEPT !.currentInstructions =
                           Append(@, createTokenAccountInstruction(
                                         payer, mint, PublicKey(recips[k + 1])))]
                  ELSE st
    IN  IF Len(pushed.currentInstructions) >= perTx \/ k = Len(recips) - 1
        THEN IF Len(pushed.currentInstructions) > 0
             THEN [transactions |->
                       Append(pushed.transactions,
                              buildTransaction(pushed.currentInstructions)),
                   currentInstructions |-> <<>>]
             ELSE pushed
        ELSE pushed

\* the body of the loop after the await of iteration k (0-based) resolved
CreationLoopBody(st, k, recips, perTx, accountInfo, payer, mint) ==
    LET pushed == IF accountInfo = NoAccount
                  THEN [st EXCEPT !.currentInstructions =
                           Append(@, createTokenAccountInstruction(
                                         payer, mint, PublicKey(recips[k + 1])))]
                  ELSE st
    IN  IF Len(pushed.currentInstructions) >= perTx \/ k = Len(recips) - 1
        THEN IF Len(pushed.currentInstructions) > 0
             THEN [transactions |->
                       Append(pushed.transactions,
                              buildTransaction(pushed.currentInstructions)),
                   currentInstructions |-> <<>>]
             ELSE pushed
        ELSE pushed

\* mutant: every iteration looks up the first recipient
LookupAddress_AlwaysFirst(recips, k, mint) ==
    getAssociatedTokenAddressSync(mint, PublicKey(recips[1]))

\* mutant: the two arrays are declared at module level and outlive the call
FreshLocals_ModuleLevel ==
    [transactions |-> transactions, currentInstructions |-> currentInstructions]

\* `const transactions = []; let currentInstructions = []`: locals of each call
FreshLocals == [transactions |-> <<>>, currentInstructions |-> <<>>]

\* the address iteration k (0-based) passes to connection.getAccountInfo
LookupAddress(recips, k, mint) ==
    getAssociatedTokenAddressSync(mint, PublicKey(recips[k + 1]))

\* mutant: the rejection is caught and the bundles finalized so far are returned
RejectedLookupResult_Partial(txs) == Some(txs)

\* what the caller of a rejected lookup receives: the await rethrows, nothing is returned
RejectedLookupResult(txs) == Undefined

----------------------------------------------------------------------------
(* generateCompleteBulkSplTransactions: src/disperse/bulk-spl-transfer.ts *)

\* "Determine recipient list": the list, or undefined when the function throws
RecipientList(cfg) ==
    IF cfg.recipients /= Undefined
    THEN Some(Value(cfg.recipients))
    ELSE IF cfg.transfers /= Undefined
    THEN Some([k \in 1..Len(Value(cfg.transfers)) |-> Value(cfg.transfers)[k].recipient])
    ELSE Undefined

\* the instructionsPerTx argument handed to the account-creation generator
CreationCapacityArgument(cfg) == cfg.instructionsPerTx

----------------------------------------------------------------------------
(* Inputs *)

SenderKey == PublicKey(0)
MintKey == PublicKey(-1)

Addr == {1, 2}
ShortLists == UNION {[1..n -> Addr] : n \in 0..MaxLen}
\* n distinct recipients
LongList(n) == [k \in 1..n |-> k]
\* transfers to the recipients of l, the k-th of amount 10 * k
TransfersTo(l) == [k \in 1..Len(l) |-> [recipient |-> l[k], amount |-> 10 * k]]

Capacities == (0 - MaxCap)..MaxCap
FixedAmounts == {0, 5}
Memos == {"airdrop"}

Optional(S) == {Undefined} \cup {Some(v) : v \in S}

ShortConfigs ==
    [sender : {SenderKey}, mint : {MintKey},
     transfers : Optional({TransfersTo(l) : l \in ShortLists}),
     recipients : Optional(ShortLists),
     fixedAmount : Optional(FixedAmounts),
     instructionsPerTx : Optional(Capacities),
     memo : Optional(Memos)]

\* long lists under the default capacities, in either input mode
LongConfigs(lens) ==
    [sender : {SenderKey}, mint : {MintKey},
     transfers : {Undefined},
     recipients : {Some(LongList(n)) : n \in lens},
     fixedAmount : {Some(5)},
     instructionsPerTx : {Undefined},
     memo : {Undefined}]
    \cup
    [sender : {SenderKey}, mint : {MintKey},
     transfers : {Some(TransfersTo(LongList(n))) : n \in lens},
     recipients : {Undefined},
     fixedAmount : {Undefined},
     instructionsPerTx : {Undefined},
     memo : {Undefined}]

LongTransferLens == {18, 19, 37}
LongRecipientLens == {13, 27}

TransferConfigs == ShortConfigs \cup LongConfigs(LongTransferLens)
CompleteConfigs == ShortConfigs \cup LongConfigs(LongRecipientLens)
CreationArguments ==
    (ShortLists \X Optional(Capacities))
    \cup ({LongList(n) : n \in LongRecipientLens} \X {Undefined})

NoConfig ==
    [sender |-> SenderKey, mint |-> MintKey, transfers |-> Undefined,
     recipients |-> Undefined, fixedAmount |-> Undefined,
     instructionsPerTx |-> Undefined, memo |-> Undefined]

----------------------------------------------------------------------------
(* The state machine *)

Init ==
    /\ call = "none"
    /\ config = NoConfig
    /\ recipients = <<>>
    /\ instructionsPerTx = Undefined
    /\ pc = "idle"
    /\ i = 0
    /\ transactions = <<>>
    /\ currentInstructions = <<>>
    /\ lookups = <<>>
    /\ answers = <<>>
    /\ result = Undefined
    /\ error = "none"
    /\ reused = FALSE
    /\ arr = <<>>
    /\ size = 0
    /\ chunkI = 0
    /\ chunks = <<>>

CallGenerateBulkSolTransactions ==
    /\ pc = "idle"
    /\ \E cfg \in TransferConfigs :
         LET out == generateBulkSolTransactions(cfg)
         IN  /\ call' = "sol"
             /\ config' = cfg
             /\ pc' = IF out.threw THEN "thrown" ELSE "returned"
             /\ result' = IF out.threw THEN Undefined ELSE Some(out.value)
             /\ error' = out.error
    /\ UNCHANGED <<recipients, instructionsPerTx, i, transactions,
                   currentInstructions, lookups, answers, reused, chunkVars>>

CallGenerateBulkSplTransactions ==
    /\ pc = "idle"
    /\ \E cfg \in TransferConfigs :
         LET out == generateBulkSplTransactions(cfg)
         IN  /\ call' = "spl"
             /\ config' = cfg
             /\ pc' = IF out.threw THEN "thrown" ELSE "returned"
             /\ result' = IF out.threw THEN Undefined ELSE Some(out.value)
             /\ error' = out.error
    /\ UNCHANGED <<recipients, instructionsPerTx, i, transactions,
                   currentInstructions, lookups, answers, reused, chunkVars>>

\* mutant: the orchestrator builds transfers only for the recipients it provisions
CreationReturns_TransfersForMissingOnly(kind, cfg, txs) ==
    IF kind = "create"
    THEN /\ pc' = "returned"
         /\ result' = Some(txs)
         /\ error' = "none"
    ELSE LET missing == SelectSeq(recipients', LAMBDA r :
                            \E k \in 1..Len(answers') :
                                recipients'[k] = r /\ answers'[k] = NoAccount)
             out == generateBulkSplTransactions(
                        [cfg EXCEPT !.recipients =
                            IF @ = Undefined THEN @ ELSE Some(missing)])
         IN  /\ pc' = IF out.threw THEN "thrown" ELSE "returned"
             /\ result' = IF out.threw
                          THEN Undefined
                          ELSE Some([accountCreationTxs |-> txs,
                                     transferTxs |-> out.value])
             /\ error' = out.error

\* `return transactions` of the account-creation generator, and for the
\* orchestrator the rest of its body: the transfer generator and the return
CreationReturns(kind, cfg, txs) ==
    IF kind = "create"
    THEN /\ pc' = "returned"
         /\ result' = Some(txs)
         /\ error' = "none"
    ELSE LET out == generateBulkSplTransactions(cfg)
         IN  /\ pc' = IF out.threw THEN "thrown" ELSE "returned"
             /\ result' = IF out.threw
                          THEN Undefined
                          ELSE Some([accountCreationTxs |-> txs,
                                     transferTxs |-> out.value])
             /\ error' = out.error

\* mutant: all lookups are issued at entry (a Promise.all fan-out)
EnterCreation_FanOut(kind, cfg, recips, perTxArg) ==
    /\ recipients' = recips
    /\ instructionsPerTx' =
           Some(OrDefault(perTxArg, DEFAULT_INSTRUCTIONS_PER_TX_ACCOUNT_CREATION))
    /\ i' = 0
    /\ transactions' = <<>>
    /\ currentInstructions' = <<>>
    /\ answers' = <<>>
    /\ IF 0 < Len(recips)
       THEN /\ lookups' = [k \in 1..Len(recips) |-> LookupAddress(recips, k - 1, MintKey)]
            /\ pc' = "await"
            /\ result' = Undefined
            /\ error' = "none"
       ELSE /\ lookups' = <<>>
            /\ CreationReturns(kind, cfg, <<>>)

\* entry of the account-creation generator up to its first await (or its return)
EnterCreation(kind, cfg, recips, perTxArg) ==
    /\ recipients' = recips
    /\ instructionsPerTx' =
           Some(OrDefault(perTxArg, DEFAULT_INSTRUCTIONS_PER_TX_ACCOUNT_CREATION))
    /\ i' = 0
    /\ transactions' = FreshLocals.transactions
    /\ currentInstructions' = FreshLocals.currentInstructions
    /\ answers' = <<>>
    /\ IF 0 < Len(recips)
       THEN /\ lookups' = <<LookupAddress(recips, 0, MintKey)>>
            /\ pc' = "await"
            /\ result' = Undefined
            /\ error' = "none"
       ELSE /\ lookups' = <<>>
            /\ CreationReturns(kind, cfg, FreshLocals.transactions)

CallGenerateTokenAccountCreationTransactions ==
    /\ pc = "idle"
    /\ \E arg \in CreationArguments :
         /\ call' = "create"
         /\ config' = NoConfig
         /\ EnterCreation("create", NoConfig, arg[1], arg[2])
    /\ UNCHANGED <<reused, chunkVars>>

CallGenerateCompleteBulkSplTransactions ==
    /\ pc = "idle"
    /\ \E cfg \in CompleteConfigs :
         /\ call' = "complete"
         /\ config' = cfg
         /\ IF RecipientList(cfg) /= Undefined
            THEN EnterCreation("complete", cfg, Value(RecipientList(cfg)),
                               CreationCapacityArgument(cfg))
            ELSE /\ pc' = "thrown"
                 /\ error' = RecipientListErrorMessage
                 /\ result' = Undefined
                 /\ UNCHANGED <<recipients, instructionsPerTx, i, transactions,
                                currentInstructions, lookups, answers>>
    /\ UNCHANGED <<reused, chunkVars>>

Existing == {k \in 1..Len(answers) : answers[k] = AccountInfo}

\* connection.getAccountInfo resolves: the loop runs on to its next await or to the return
GetAccountInfoResolves ==
    /\ pc = "await"
    /\ UNCHANGED <<call, config, recipients, instructionsPerTx, reused, chunkVars>>
    /\ \E accountInfo \in {NoAccount, AccountInfo} :
         /\ accountInfo = AccountInfo => Cardinality(Existing) < MaxExisting
         /\ LET st == CreationLoopBody(
                          [transactions |-> transactions,
                           currentInstructions |-> currentInstructions],
                          i, recipients, Value(instructionsPerTx), accountInfo,
                          SenderKey, MintKey)
            IN  /\ answers' = Append(answers, accountInfo)
                /\ i' = i + 1
                /\ transactions' = st.transactions
                /\ currentInstructions' = st.currentInstructions
                /\ IF i + 1 < Len(recipients)
                   THEN /\ lookups' = Append(lookups,
                                             LookupAddress(recipients, i + 1, MintKey))
                        /\ UNCHANGED <<pc, result, error>>
                   ELSE /\ UNCHANGED lookups
                        /\ CreationReturns(call, config, st.transactions)

\* connection.getAccountInfo rejects: nothing catches it, the call rejects with it
GetAccountInfoRejects ==
    /\ pc = "await"
    /\ answers' = Append(answers, Rejected)
    /\ pc' = "thrown"
    /\ error' = LookupFailure
    /\ result' = RejectedLookupResult(transactions)
    /\ UNCHANGED <<call, config, recipients, instructionsPerTx, i, transactions,
                   currentInstructions, lookups, reused, chunkVars>>

\* the caller has its result or its error: the call's frame, with its
\* arguments and locals, is gone
CallEnds ==
    /\ pc \in {"returned", "thrown"}
    /\ call' = "none"
    /\ config' = NoConfig
    /\ recipients' = <<>>
    /\ instructionsPerTx' = Undefined
    /\ pc' = "idle"
    /\ i' = 0
    /\ transactions' = FreshLocals.transactions
    /\ currentInstructions' = FreshLocals.currentInstructions
    /\ lookups' = <<>>
    /\ answers' = <<>>
    /\ result' = Undefined
    /\ error' = "none"
    /\ reused' = TRUE
    /\ arr' = <<>>
    /\ size' = 0
    /\ chunkI' = 0
    /\ chunks' = <<>>

----------------------------------------------------------------------------
(* chunk: src/disperse/utils.ts *)

Min(a, b) == IF a < b THEN a ELSE b
Max(a, b) == IF a > b THEN a ELSE b

\* Array.prototype.slice(start, end): a negative index counts from the end,
\* both are clamped to 0..length, and an empty range gives []
Slice(a, start, end) ==
    LET from == IF start < 0 THEN Max(Len(a) + start, 0) ELSE Min(start, Len(a))
        to == IF end < 0 THEN Max(Len(a) + end, 0) ELSE Min(end, Len(a))
    IN  IF from < to THEN SubSeq(a, from + 1, to) ELSE <<>>

\* the test of the while loop, and the return behind it
ChunkWhile(a, idx, cs) ==
    IF idx < Len(a)
    THEN /\ pc' = "loop"
         /\ result' = Undefined
    ELSE /\ pc' = "returned"
         /\ result' = Some(cs)

CallChunk ==
    /\ pc = "idle"
    /\ \E a \in ShortLists, s \in Capacities :
         /\ call' = "chunk"
         /\ arr' = a
         /\ size' = s
         /\ chunks' = <<>>
         /\ chunkI' = 0
         /\ ChunkWhile(a, 0, <<>>)
    /\ error' = "none"
    /\ UNCHANGED <<config, recipients, instructionsPerTx, i, transactions,
                   currentInstructions, lookups, answers, reused>>

\* one iteration: chunks.push(arr.slice(i, (i += size))), then the loop test;
\* a push the heap cannot hold ends the run with the runtime's fatal error
ChunkIteration ==
    /\ pc = "loop"
    /\ IF Len(chunks) < MaxChunks
       THEN /\ chunks' = Append(chunks, Slice(arr, chunkI, chunkI + size))
            /\ chunkI' = chunkI + size
            /\ ChunkWhile(arr, chunkI + size,
                          Append(chunks, Slice(arr, chunkI, chunkI + size)))
            /\ UNCHANGED error
       ELSE /\ pc' = "thrown"
            /\ error' = OutOfMemory
            /\ UNCHANGED <<chunks, chunkI, result>>
    /\ UNCHANGED <<call, config, recipients, instructionsPerTx, i, transactions,
                   currentInstructions, lookups, answers, reused, arr, size>>

Next ==
    \/ CallChunk
    \/ ChunkIteration
    \/ CallGenerateBulkSolTransactions
    \/ CallGenerateBulkSplTransactions
    \/ CallGenerateTokenAccountCreationTransactions
    \/ CallGenerateCompleteBulkSplTransactions
    \/ GetAccountInfoResolves
    \/ GetAccountInfoRejects
    \/ CallEnds

Spec == Init /\ [][Next]_vars

----------------------------------------------------------------------------
(* Vocabulary of the properties *)

IsMemo(ins) == ins.programId = "Memo"
IsTransfer(ins) == ins.programId \in {"System", "Token"}
IsCreation(ins) == ins.programId = "AssociatedToken"

\* the content (non-memo) operations of a bundle, and their number
Content(tx) == SelectSeq(tx.instructions, LAMBDA ins : ~IsMemo(ins))
ContentSizes(txs) == [b \in 1..Len(txs) |-> Len(Content(txs[b]))]

RECURSIVE ConcatContent(_)
ConcatContent(txs) ==
    IF txs = <<>> THEN <<>> ELSE Content(Head(txs)) \o ConcatContent(Tail(txs))

\* what a transfer operation carries: the recipient's address and the amount
Carried(ins) ==
    IF ins.programId = "System"
    THEN [recipient |-> ins.toPubkey.base58, amount |-> ins.lamports]
    ELSE [recipient |-> ins.destination.owner.base58, amount |-> ins.amount]
CarriedBy(ops) == [k \in 1..Len(ops) |-> Carried(ops[k])]

\* the input mode of a config, and the requests it asks for
FixedAmountMode(cfg) == cfg.recipients /= Undefined /\ cfg.fixedAmount /= Undefined
TransfersMode(cfg) == ~FixedAmountMode(cfg) /\ cfg.transfers /= Undefined
Requests(cfg) ==
    IF FixedAmountMode(cfg)
    THEN [k \in 1..Len(Value(cfg.recipients)) |->
             [recipient |-> Value(cfg.recipients)[k], amount |-> Value(cfg.fixedAmount)]]
    ELSE [k \in 1..Len(Value(cfg.transfers)) |->
             [recipient |-> Value(cfg.transfers)[k].recipient,
              amount |-> Value(cfg.transfers)[k].amount]]

CeilDiv(n, c) == (n + c - 1) \div c
\* sizes of ceil(n/c) bundles: c each, the last n mod c (or c)
PackedSizes(n, c) ==
    [b \in 1..CeilDiv(n, c) |-> IF b < CeilDiv(n, c) THEN c ELSE n - c * (CeilDiv(n, c) - 1)]

TransferCallReturned == call \in {"sol", "spl"} /\ pc = "returned"
\* the capacity a transfer generator works with
TransferCapacity == OrDefault(config.instructionsPerTx, DEFAULT_INSTRUCTIONS_PER_TX_TRANSFER)

CreationCallReturned == call \in {"create", "complete"} /\ pc = "returned"
\* the provisioning bundles a returned call hands back
ProvisioningBundles ==
    IF call = "create" THEN Value(result) ELSE Value(result).accountCreationTxs
\* recipients looked up and reported missing, in input order (by list position)
MissingPositions == {k \in 1..Len(answers) : answers[k] = NoAccount}
RECURSIVE MissingFrom(_)
MissingFrom(k) ==
    IF k > Len(answers) THEN <<>>
    ELSE (IF answers[k] = NoAccount THEN <<recipients[k]>> ELSE <<>>) \o MissingFrom(k + 1)
Owners(ops) == [k \in 1..Len(ops) |-> ops[k].owner.base58]

----------------------------------------------------------------------------
(* Properties *)

\* C1: for N requests and an integer capacity C >= 1 the transfer generators
\* return ceil(N/C) bundles; each but the last holds C transfers, the last
\* N mod C (or C when C divides N and N > 0).
C1_BundleCountAndSizes ==
    (TransferCallReturned /\ TransferCapacity >= 1) =>
        ContentSizes(Value(result)) = PackedSizes(Len(Requests(config)), TransferCapacity)

C1_Witness ==
    /\ TransferCallReturned
    /\ config.instructionsPerTx = Undefined
    /\ Len(Requests(config)) = 37
    /\ ContentSizes(Value(result)) = <<18, 18, 1>>

\* C2: the transfers of the bundles, read in bundle order, are the input
\* requests in input order: the i-th carries transfers[i] in transfers mode,
\* and recipients[i] with fixedAmount in recipients + fixedAmount mode.
C2_TransfersAreTheRequestsInOrder ==
    TransferCallReturned =>
        /\ \A k \in 1..Len(ConcatContent(Value(result))) :
               IsTransfer(ConcatContent(Value(result))[k])
        /\ CarriedBy(ConcatContent(Value(result))) = Requests(config)

C2_Witness ==
    /\ TransferCallReturned
    /\ TransfersMode(config)
    /\ Len(Value(result)) = 2
    /\ CarriedBy(ConcatContent(Value(result)))
           = <<[recipient |-> 1, amount |-> 10], [recipient |-> 2, amount |-> 20]>>

\* C3: every bundle of a transfer generator holds the memo exactly once, as
\* its last operation, after at least one transfer; no bundle is the memo alone.
C3_MemoOnceAndLast ==
    TransferCallReturned =>
        \A b \in 1..Len(Value(result)) :
            LET ops == Value(result)[b].instructions
            IN  /\ Len(ops) >= 2
                /\ IsMemo(ops[Len(ops)])
                /\ \A k \in 1..(Len(ops) - 1) : IsTransfer(ops[k])

C3_Witness ==
    /\ TransferCallReturned
    /\ Len(Value(result)) = 2
    /\ \A b \in 1..2 : Len(Value(result)[b].instructions) = 2
    /\ \A b \in 1..2 : IsMemo(Value(result)[b].instructions[2])

\* C4: a transfer generator throws the configuration error, returning nothing,
\* exactly when the config has neither transfers nor both recipients and
\* fixedAmount; every other config returns a bundle list.
C4_ConfigurationErrorExactly ==
    (call \in {"sol", "spl"}) =>
        IF config.transfers = Undefined
           /\ ~(config.recipients /= Undefined /\ config.fixedAmount /= Undefined)
        THEN pc = "thrown" /\ error = ConfigurationErrorMessage /\ result = Undefined
        ELSE pc = "returned" /\ error = "none" /\ result /= Undefined

C4_Witness ==
    /\ call = "spl"
    /\ pc = "thrown"
    /\ error = ConfigurationErrorMessage
    /\ config.recipients /= Undefined
    /\ config.fixedAmount = Undefined

C6_ProvisionedAreTheMissingInOrder ==
    CreationCallReturned =>
        /\ Len(answers) = Len(recipients)
        /\ Owners(ConcatContent(ProvisioningBundles)) = MissingFrom(1)
        /\ (\A k \in 1..Len(answers) : answers[k] = NoAccount) =>
               Owners(ConcatContent(ProvisioningBundles)) = recipients

C6_Witness ==
    /\ call = "create"
    /\ pc = "returned"
    /\ recipients = <<1, 2>>
    /\ answers = <<AccountInfo, NoAccount>>
    /\ Owners(ConcatContent(ProvisioningBundles)) = <<2>>

C8_LookupFailureReturnsNothing ==
    /\ (\E k \in 1..Len(answers) : answers[k] = Rejected) =>
           pc = "thrown" /\ error = LookupFailure /\ result = Undefined
    /\ (call \in {"create", "complete"} /\ pc = "thrown") =>
           result = Undefined /\ error /= "none"
    /\ (call = "complete" /\ pc = "returned") =>
           /\ error = "none"
           /\ result /= Undefined
           /\ DOMAIN Value(result) = {"accountCreationTxs", "transferTxs"}

C8_Witness ==
    /\ call = "complete"
    /\ pc = "thrown"
    /\ error = LookupFailure
    /\ answers[Len(answers)] = Rejected
    /\ Len(transactions) >= 1
    /\ result = Undefined

\* the instructionsPerTx the caller supplied
SuppliedCapacity ==
    IF call = "create" THEN instructionsPerTx ELSE config.instructionsPerTx

\* C9: a call given a capacity <= 0 fails at entry: it throws, has issued no
\* lookup and returns no bundle.
C9_NonPositiveCapacityFailsAtEntry ==
    (call /= "none" /\ SuppliedCapacity /= Undefined /\ Value(SuppliedCapacity) <= 0) =>
        pc = "thrown" /\ lookups = <<>> /\ result = Undefined

\* C10: in the orchestrator the provisioning capacity (default 12) does not
\* depend on the configured transfer capacity: provisioning bundles are packed
\* by 12 whatever instructionsPerTx >= 1 is configured, and unconfigured
\* transfer bundles hold at most 18 transfers.
C10_ProvisioningCapacityIndependent ==
    (/\ call = "complete"
     /\ pc = "returned"
     /\ (config.instructionsPerTx = Undefined \/ Value(config.instructionsPerTx) >= 1)) =>
        /\ ContentSizes(Value(result).accountCreationTxs)
               = PackedSizes(Cardinality(MissingPositions),
                             DEFAULT_INSTRUCTIONS_PER_TX_ACCOUNT_CREATION)
        /\ config.instructionsPerTx = Undefined =>
               \A b \in 1..Len(Value(result).transferTxs) :
                   Len(Content(Value(result).transferTxs[b]))
                       <= DEFAULT_INSTRUCTIONS_PER_TX_TRANSFER

\* a config the transfer generator rejects: no transfers, and not both
\* recipients and fixedAmount
NoTransferSpecification(cfg) ==
    cfg.transfers = Undefined
    /\ ~(cfg.recipients /= Undefined /\ cfg.fixedAmount /= Undefined)

\* C11: the orchestrator called without a valid transfer specification has
\* failed with the configuration error before any existence lookup is issued.
C11_ConfigurationErrorBeforeLookups ==
    (call = "complete" /\ NoTransferSpecification(config)) =>
        pc = "thrown" /\ error /= "none" /\ lookups = <<>> /\ result = Undefined

\* C12: a returned account-creation call on n recipients has issued exactly n
\* lookups, the k-th for the k-th list position (a repeated address once per
\* occurrence); an empty list issues none and returns the empty bundle list.
C12_OneLookupPerPosition ==
    CreationCallReturned =>
        /\ Len(lookups) = Len(recipients)
        /\ Len(answers) = Len(recipients)
        /\ \A k \in 1..Len(lookups) :
               lookups[k] = getAssociatedTokenAddressSync(MintKey, PublicKey(recipients[k]))
        /\ recipients = <<>> => (lookups = <<>> /\ ProvisioningBundles = <<>>)

C12_Witness ==
    /\ call = "create"
    /\ pc = "returned"
    /\ recipients = <<2, 2>>
    /\ Len(lookups) = 2
    /\ lookups[1] = lookups[2]

\* C13: one account-creation call emits at most one creation operation per
\* distinct recipient address.
C13_NoDuplicateProvisioning ==
    CreationCallReturned =>
        \A j, k \in 1..Len(ConcatContent(ProvisioningBundles)) :
            j /= k => Owners(ConcatContent(ProvisioningBundles))[j]
                          /= Owners(ConcatContent(ProvisioningBundles))[k]

\* C14: for every config the orchestrator accepts, the list it checks for
\* provisioning is the sequence of recipients of the requests in transferTxs.
C14_CheckedListIsTransferRecipients ==
    (call = "complete" /\ pc = "returned") =>
        recipients = [k \in 1..Len(ConcatContent(Value(result).transferTxs)) |->
                         Carried(ConcatContent(Value(result).transferTxs)[k]).recipient]

\* a config that supplies both input families
BothFamilies(cfg) ==
    cfg.transfers /= Undefined /\ cfg.recipients /= Undefined /\ cfg.fixedAmount /= Undefined

\* C15: given both families a transfer generator raises no error and builds
\* its bundles from recipients with fixedAmount only: the transfers, in order,
\* are one per recipient with the fixed amount, none from the transfers list.
C15_RecipientsFamilyTakesPrecedence ==
    (call \in {"sol", "spl"} /\ BothFamilies(config)) =>
        /\ pc = "returned"
        /\ error = "none"
        /\ CarriedBy(ConcatContent(Value(result)))
               = [k \in 1..Len(Value(config.recipients)) |->
                     [recipient |-> Value(config.recipients)[k],
                      amount |-> Value(config.fixedAmount)]]

C15_Witness ==
    /\ call = "spl"
    /\ pc = "returned"
    /\ BothFamilies(config)
    /\ Value(config.recipients) = <<2>>
    /\ Len(Value(config.transfers)) = 2
    /\ Value(config.transfers)[1].recipient = 1
    /\ Len(ConcatContent(Value(result))) = 1

\* what the two generators are compared on: per bundle its number of
\* operations and the (recipient, amount) sequence of its transfers
BundleShape(txs) ==
    [b \in 1..Len(txs) |->
        [size |-> Len(txs[b].instructions), carried |-> CarriedBy(Content(txs[b]))]]

\* the outcome of the other transfer generator on the same config
OtherGenerator(cfg) ==
    IF call = "sol" THEN generateBulkSplTransactions(cfg)
    ELSE generateBulkSolTransactions(cfg)

\* C16: on the same config the SOL and the SPL generator fail alike, and
\* return the same number of bundles with the same size and the same
\* (recipient, amount) sequence per bundle.
C16_SolAndSplPackAlike ==
    (call \in {"sol", "spl"}) =>
        /\ (pc = "thrown") = OtherGenerator(config).threw
        /\ error = OtherGenerator(config).error
        /\ pc = "returned" =>
               BundleShape(Value(result)) = BundleShape(OtherGenerator(config).value)

C16_Witness ==
    /\ call = "sol"
    /\ pc = "returned"
    /\ TransfersMode(config)
    /\ Len(Value(result)) = 2
    /\ BundleShape(Value(result)) = BundleShape(generateBulkSplTransactions(config).value)

\* C17: lookups are issued one at a time in input order: at most one is
\* outstanding, exactly while the call is suspended, the k-th issued is that
\* of the k-th recipient, and a rejected lookup is the last one issued.
C17_LookupsStrictlySequential ==
    /\ Len(answers) <= Len(lookups)
    /\ Len(lookups) <= Len(answers) + 1
    /\ (Len(lookups) = Len(answers) + 1) = (pc = "await")
    /\ Len(lookups) <= Len(recipients)
    /\ \A k \in 1..Len(lookups) :
           lookups[k] = getAssociatedTokenAddressSync(MintKey, PublicKey(recipients[k]))
    /\ \A k \in 1..Len(answers) :
           answers[k] = Rejected => (k = Len(answers) /\ k = Len(lookups) /\ pc = "thrown")

C17_Witness ==
    /\ call = "create"
    /\ pc = "await"
    /\ Len(recipients) >= 3
    /\ Len(answers) = 1
    /\ Len(lookups) = 2


----------------------------------------------------------------------------
(* C18 *)

\* the account-creation loop run over the answers ans from position k on,
\* starting from the locals st
RECURSIVE ReplayCreation(_, _, _, _, _)
ReplayCreation(k, st, recips, perTx, ans) ==
    IF k >= Len(ans) \/ ans[k + 1] = Rejected
    THEN st
    ELSE ReplayCreation(k + 1,
                        CreationLoopBody(st, k, recips, perTx, ans[k + 1],
                                         SenderKey, MintKey),
                        recips, perTx, ans)

Outcome(out) ==
    [result |-> IF out.threw THEN Undefined ELSE Some(out.value), error |-> out.error]

\* what a call with these arguments and these lookup answers gives when it is
\* the first thing the engine ever does: computed from empty locals
FirstCallOutcome(kind, cfg, recips, perTx, ans) ==
    LET created == ReplayCreation(0, [transactions |-> <<>>,
                                      currentInstructions |-> <<>>],
                                  recips, perTx, ans).transactions
        rejected == \E k \in 1..Len(ans) : ans[k] = Rejected
        transfers == generateBulkSplTransactions(cfg)
    IN  CASE kind = "sol" -> Outcome(generateBulkSolTransactions(cfg))
          [] kind = "spl" -> Outcome(transfers)
          [] kind = "create" ->
                 IF rejected
                 THEN [result |-> Undefined, error |-> LookupFailure]
                 ELSE [result |-> Some(created), error |-> "none"]
          [] kind = "complete" ->
                 IF RecipientList(cfg) = Undefined
                 THEN [result |-> Undefined, error |-> RecipientListErrorMessage]
                 ELSE IF rejected
                 THEN [result |-> Undefined, error |-> LookupFailure]
                 ELSE IF transfers.threw
                 THEN [result |-> Undefined, error |-> transfers.error]
                 ELSE [result |-> Some([accountCreationTxs |-> created,
                                        transferTxs |-> transfers.value]),
                       error |-> "none"]

GeneratorCall == call \in {"sol", "spl", "create", "complete"}

\* between calls the engine holds nothing of the calls before
NothingKept ==
    pc = "idle" =>
        /\ call = "none" /\ config = NoConfig /\ recipients = <<>>
        /\ instructionsPerTx = Undefined /\ i = 0
        /\ transactions = <<>> /\ currentInstructions = <<>>
        /\ lookups = <<>> /\ answers = <<>>
        /\ result = Undefined /\ error = "none"

\* the outcome of a finished call is the outcome of a first call with the same
\* arguments and the same answers, whatever calls came before
OutcomeAsOfFirstCall ==
    (GeneratorCall /\ pc \in {"returned", "thrown"}) =>
        LET first == FirstCallOutcome(
                         call, config,
                         IF call = "complete" /\ RecipientList(config) /= Undefined
                         THEN Value(RecipientList(config)) ELSE recipients,
                         IF call = "complete"
                         THEN OrDefault(CreationCapacityArgument(config),
                                        DEFAULT_INSTRUCTIONS_PER_TX_ACCOUNT_CREATION)
                         ELSE OrDefault(instructionsPerTx,
                                        DEFAULT_INSTRUCTIONS_PER_TX_ACCOUNT_CREATION),
                         answers)
        IN  /\ result = first.result
            /\ error = first.error

\* while a call runs, and when it finishes, its arguments are as they were passed
InputsUntouched ==
    (GeneratorCall /\ pc = "await") =>
        /\ call' = call
        /\ config' = config
        /\ recipients' = recipients
        /\ instructionsPerTx' = instructionsPerTx

----------------------------------------------------------------------------
(* C19 *)

RECURSIVE ConcatChunks(_)
ConcatChunks(cs) == IF cs = <<>> THEN <<>> ELSE Head(cs) \o ConcatChunks(Tail(cs))

\* C19: chunk(arr, size) terminates for every array and every integer size,
\* positive, zero or negative, and the chunks it returns, concatenated in
\* order, are arr.  Every iteration pushes a chunk, so a run that does not
\* return is a run that exhausts the heap.
C19_ChunkTerminatesWithAllElements ==
    call = "chunk" =>
        /\ pc \in {"loop", "returned"}
        /\ error = "none"
        /\ pc = "returned" => ConcatChunks(Value(result)) = arr

====
